---- MODULE Spec2Model ----
(***************************************************************************)
(* The two zkVM guest programs of sp1-aptos (programs/epoch-change and     *)
(* programs/inclusion) and the host code that feeds them (script/src).     *)
(*                                                                         *)
(* A run is: a host writer fills stdin from its assets, the guest reads    *)
(* the items, deserializes, verifies, and commits its public values one    *)
(* by one; any expect()/panic!() aborts the run.                           *)
(*                                                                         *)
(* The verification library aptos_lc_core is not part of the source tree;  *)
(* its operators below follow sections 3 and 4 of the specification.       *)
(***************************************************************************)
EXTENDS Integers, Sequences, FiniteSets, TLC

\* Longest EpochChangeProof (number of LedgerInfoWithSignatures entries).
MaxProofLen == 2

\* Committee identities of the bounded universe.
Committees == {1, 2, 3}

(***************************************************************************)
(* Results and options                                                     *)
(***************************************************************************)
Ok(v) == [ok |-> TRUE, val |-> <<v>>, err |-> ""]
Err(e) == [ok |-> FALSE, val |-> <<>>, err |-> e]
None == <<>>
Some(x) == <<x>>

(***************************************************************************)
(* 32-byte digests.  A digest is a sequence of integers: an arbitrary      *)
(* 32-byte value n is <<0, n>>, and a hash is its tag followed by the      *)
(* encodings of what was hashed (a prefix code, so distinct preimages give *)
(* distinct digests: the hash is collision free and order sensitive).      *)
(***************************************************************************)
Atom(n) == <<0, n>>

RECURSIVE FlattenPairs(_)
FlattenPairs(s) ==
  IF s = <<>> THEN <<>> ELSE <<s[1][1], s[1][2]>> \o FlattenPairs(Tail(s))

\* ValidatorVerifier: [validators |-> sequence of <<public_key, voting_power>>]
ValidatorVerifierHash(v) == <<1, Len(v.validators)>> \o FlattenPairs(v.validators)

RECURSIVE SumPower(_)
SumPower(s) == IF s = <<>> THEN 0 ELSE s[1][2] + SumPower(Tail(s))

total_voting_power(v) == SumPower(v.validators)
quorum_voting_power(v) == (total_voting_power(v) * 2) \div 3 + 1

PublicKeys(v) == {v.validators[i][1] : i \in 1..Len(v.validators)}
PowerOf(v, pk) ==
  LET i == CHOOSE j \in 1..Len(v.validators) : v.validators[j][1] = pk
  IN v.validators[i][2]

\* EpochState: [epoch, verifier]
EpochStateHash(es) == <<2, es.epoch>> \o ValidatorVerifierHash(es.verifier)

\* LedgerInfo: [epoch, version, transaction_accumulator_hash,
\*              next_epoch_state (None or Some(EpochState)), block_id]
LedgerInfoHash(li) ==
  <<3, li.epoch, li.version>> \o li.transaction_accumulator_hash \o li.block_id
    \o (IF li.next_epoch_state = None THEN <<0>>
        ELSE <<1>> \o EpochStateHash(li.next_epoch_state[1]))

\* TransactionInfo: [id, state_checkpoint (None or Some(digest))]
TransactionInfoHash(tx) ==
  <<4, tx.id>> \o (IF tx.state_checkpoint = None THEN <<0>>
                   ELSE <<1>> \o tx.state_checkpoint[1])

AccumulatorNodeHash(l, r) == <<5>> \o l \o r
SparseLeafHash(key, value_hash) == <<6>> \o key \o value_hash
SparseInternalHash(l, r) == <<7>> \o l \o r

(***************************************************************************)
(* The binary codec.  A byte buffer is a type descriptor with the encoded  *)
(* value; decoding as type T succeeds only on a buffer that encodes a T.   *)
(***************************************************************************)
to_bytes(T, v) == [type |-> T, val |-> <<v>>]
Garbage == [type |-> "garbage", val |-> <<>>]
from_bytes(T, b) == IF b.type = T THEN Ok(b.val[1]) ELSE Err("DeserializationError")

(***************************************************************************)
(* 4.1 verify_signatures.  A LedgerInfoWithSignatures is                   *)
(* [ledger_info, signatures], a signature is [signer, msg]: a signature of *)
(* signer over the digest msg; it is valid for the header iff msg is the   *)
(* header's hash.                                                          *)
(***************************************************************************)
RECURSIVE ValidPower(_, _, _)
ValidPower(sigs, v, h) ==
  IF sigs = <<>> THEN 0
  ELSE (IF sigs[1].msg = h THEN PowerOf(v, sigs[1].signer) ELSE 0)
       + ValidPower(Tail(sigs), v, h)

verify_signatures(liws, v) ==
  LET sigs == liws.signatures
      h == LedgerInfoHash(liws.ledger_info)
  IN IF \E i \in 1..Len(sigs) : sigs[i].signer \notin PublicKeys(v)
       THEN Err("UnknownSigner")
     ELSE IF \E i, j \in 1..Len(sigs) : i # j /\ sigs[i].signer = sigs[j].signer
       THEN Err("DuplicateSigner")
     ELSE IF ValidPower(sigs, v, h) < quorum_voting_power(v)
       THEN Err("InvalidQuorum")
     ELSE Ok(TRUE)

(***************************************************************************)
(* 4.2 the epoch-change ratchet                                            *)
(***************************************************************************)
RECURSIVE RatchetLoop(_, _, _, _)
\* entry i is verified against cur, the epoch state trusted after entries 1..i-1;
\* trustFirst: the first entry is taken as verified (the waypoint arm).
RatchetLoop(cur, entries, i, trustFirst) ==
  IF i > Len(entries) THEN Ok(cur)
  ELSE LET e == entries[i]
           r == IF i = 1 /\ trustFirst THEN Ok(TRUE)
                ELSE verify_signatures(e, cur.verifier)
       IN IF ~r.ok THEN r
          ELSE IF e.ledger_info.next_epoch_state = None
            THEN Err("MissingNextEpochState")
          ELSE RatchetLoop(e.ledger_info.next_epoch_state[1], entries, i + 1, trustFirst)

EpochChange(r, proof) ==
  IF r.ok
    THEN Ok([kind |-> "Epoch", new_state |-> r.val[1],
             latest_epoch_change_li |-> proof[Len(proof)]])
    ELSE r

\* TrustedState: [kind |-> "EpochState", epoch_state] or [kind |-> "EpochWaypoint", waypoint].
\* The ratchet is defined over EpochState only; on the other arm the library
\* either rejects the state or accepts the first entry on the waypoint's word
\* (waypointAccepts), which the caller cannot tell in advance.
verify_and_ratchet_inner(ts, proof, waypointAccepts) ==
  IF Len(proof) = 0 THEN Err("MissingNextEpochState")
  ELSE IF ts.kind = "EpochState"
    THEN EpochChange(RatchetLoop(ts.epoch_state, proof, 1, FALSE), proof)
  ELSE IF ~waypointAccepts THEN Err("UnexpectedTrustedStateVariant")
  ELSE EpochChange(RatchetLoop(None, proof, 1, TRUE), proof)

(***************************************************************************)
(* 4.3 the accumulator proof verifier                                      *)
(***************************************************************************)
RECURSIVE Pow2(_)
Pow2(n) == IF n = 0 THEN 1 ELSE 2 * Pow2(n - 1)

RECURSIVE AccumulatorFold(_, _, _)
\* bit i of index selects the sibling's side at level i
AccumulatorFold(h, index, siblings) ==
  IF siblings = <<>> THEN h
  ELSE AccumulatorFold(IF index % 2 = 0 THEN AccumulatorNodeHash(h, siblings[1])
                       ELSE AccumulatorNodeHash(siblings[1], h),
                       index \div 2, Tail(siblings))

TransactionAccumulatorProofVerify(proof, root, leaf_hash, index) ==
  IF index \div Pow2(Len(proof.siblings)) # 0 THEN Err("MalformedProof")
  ELSE IF AccumulatorFold(leaf_hash, index, proof.siblings) # root
    THEN Err("RootMismatch")
  ELSE Ok(TRUE)

(***************************************************************************)
(* 4.4 the sparse Merkle proof verifier.  Keys are KeyBits wide; a proof   *)
(* is [leaf (None or Some([key, value_hash])), siblings (bottom to top)].  *)
(***************************************************************************)
KeyBits == 2

\* the bit of key deciding the direction at depth d below the root (1 = first)
KeyBit(key, d) == (key[2] \div Pow2(KeyBits - d)) % 2

RECURSIVE SparseFold(_, _, _, _)
SparseFold(h, key, siblings, depth) ==
  IF siblings = <<>> THEN h
  ELSE SparseFold(IF KeyBit(key, depth) = 0 THEN SparseInternalHash(h, siblings[1])
                  ELSE SparseInternalHash(siblings[1], h),
                  key, Tail(siblings), depth - 1)

\* Returns the recomputed root; expected_root is for the caller to compare.
verify_by_hash(proof, expected_root, key, value_hash) ==
  IF Len(proof.siblings) = 0 THEN Err("EmptyProof")
  ELSE IF Len(proof.siblings) > KeyBits THEN Err("MalformedProof")
  ELSE IF proof.leaf = None THEN Err("MalformedProof")
  ELSE IF proof.leaf[1].key # key \/ proof.leaf[1].value_hash # value_hash
    THEN Err("MalformedProof")
  ELSE Ok(SparseFold(SparseLeafHash(key, value_hash), key, proof.siblings,
                     Len(proof.siblings)))

(***************************************************************************)
(* Host side: stdin.  An item of the input stream is a length-prefixed     *)
(* buffer (write_vec) or a serialized fixed-width value (write); field     *)
(* names the asset it was written from.                                    *)
(***************************************************************************)
write_vec(stdin_, field, data) ==
  Append(stdin_, [kind |-> "vec", field |-> field, data |-> <<data>>])
write(stdin_, field, data) ==
  Append(stdin_, [kind |-> "val", field |-> field, data |-> <<data>>])

\* script/src/epoch_change.rs generate_stdin
epoch_change_generate_stdin(a) ==
  LET s1 == write_vec(<<>>, "trusted_state", a.trusted_state)
      s2 == write_vec(s1, "epoch_change_proof", a.epoch_change_proof)
  IN s2

\* script/src/bin/epoch_change.rs ProvingAssets::prove
epoch_change_prove_stdin(a) ==
  LET s1 == write_vec(<<>>, "trusted_state", a.trusted_state)
      s2 == write_vec(s1, "epoch_change_proof", a.epoch_change_proof)
  IN s2

\* script/src/bin/epoch_change.rs ProvingAssets::execute
epoch_change_execute_stdin(a) ==
  LET s1 == write_vec(<<>>, "trusted_state", a.trusted_state)
      s2 == write_vec(s1, "epoch_change_proof", a.epoch_change_proof)
  IN s2

\* script/src/inclusion.rs generate_stdin
inclusion_generate_stdin(a) ==
  LET s1 == write_vec(<<>>, "sparse_merkle_proof", a.sparse_merkle_proof)
      s2 == write(s1, "leaf_key", a.leaf_key)
      s3 == write(s2, "leaf_hash", a.leaf_hash)
      s4 == write_vec(s3, "transaction", a.transaction)
      s5 == write(s4, "transaction_index", a.transaction_index)
      s6 == write_vec(s5, "transaction_proof", a.transaction_proof)
      s7 == write_vec(s6, "latest_li", a.latest_li)
      s8 == write_vec(s7, "validator_verifier", a.validator_verifier)
  IN s8

\* (mutant) the transaction index written as a buffer
inclusion_prove_stdin_IndexAsVec(a) ==
  LET s1 == write_vec(<<>>, "sparse_merkle_proof", a.sparse_merkle_proof)
      s2 == write(s1, "leaf_key", a.leaf_key)
      s3 == write(s2, "leaf_hash", a.leaf_hash)
      s4 == write_vec(s3, "transaction", a.transaction)
      s5 == write_vec(s4, "transaction_index", a.transaction_index)
      s6 == write_vec(s5, "transaction_proof", a.transaction_proof)
      s7 == write_vec(s6, "latest_li", a.latest_li)
      s8 == write_vec(s7, "validator_verifier", a.validator_verifier)
  IN s8

\* script/src/bin/inclusion.rs ProvingAssets::prove
inclusion_prove_stdin(a) ==
  LET s1 == write_vec(<<>>, "sparse_merkle_proof", a.sparse_merkle_proof)
      s2 == write(s1, "leaf_key", a.leaf_key)
      s3 == write(s2, "leaf_hash", a.leaf_hash)
      s4 == write_vec(s3, "transaction", a.transaction)
      s5 == write(s4, "transaction_index", a.transaction_index)
      s6 == write_vec(s5, "transaction_proof", a.transaction_proof)
      s7 == write_vec(s6, "latest_li", a.latest_li)
      s8 == write_vec(s7, "validator_verifier", a.validator_verifier)
  IN s8

\* script/src/bin/inclusion.rs ProvingAssets::execute
inclusion_execute_stdin(a) ==
  LET s1 == write_vec(<<>>, "sparse_merkle_proof", a.sparse_merkle_proof)
      s2 == write(s1, "leaf_key", a.leaf_key)
      s3 == write(s2, "leaf_hash", a.leaf_hash)
      s4 == write_vec(s3, "transaction", a.transaction)
      s5 == write(s4, "transaction_index", a.transaction_index)
      s6 == write_vec(s5, "transaction_proof", a.transaction_proof)
      s7 == write_vec(s6, "latest_li", a.latest_li)
      s8 == write_vec(s7, "validator_verifier", a.validator_verifier)
  IN s8

Modes == {"generate_stdin", "prove", "execute"}

EpochChangeStdin(mode_, a) ==
  CASE mode_ = "generate_stdin" -> epoch_change_generate_stdin(a)
    [] mode_ = "prove" -> epoch_change_prove_stdin(a)
    [] OTHER -> epoch_change_execute_stdin(a)

InclusionStdin(mode_, a) ==
  CASE mode_ = "generate_stdin" -> inclusion_generate_stdin(a)
    [] mode_ = "prove" -> inclusion_prove_stdin(a)
    [] OTHER -> inclusion_execute_stdin(a)

(***************************************************************************)
(* Guest side: the order and kind of the reads.                            *)
(***************************************************************************)
\* programs/epoch-change/src/main.rs lines 9-10
epoch_change_reads ==
  << [kind |-> "vec", var |-> "trusted_state_bytes"],
     [kind |-> "vec", var |-> "epoch_change_proof"] >>

\* programs/inclusion/src/main.rs lines 13-22
inclusion_reads ==
  << [kind |-> "vec", var |-> "sparse_merkle_proof_bytes"],
     [kind |-> "val", var |-> "key"],
     [kind |-> "val", var |-> "leaf_value_hash"],
     [kind |-> "vec", var |-> "transaction_bytes"],
     [kind |-> "val", var |-> "transaction_index"],
     [kind |-> "vec", var |-> "transaction_proof"],
     [kind |-> "vec", var |-> "ledger_info_bytes"],
     [kind |-> "vec", var |-> "verified_validator_verifier"] >>

(***************************************************************************)
(* The bounded universe of inputs.                                         *)
(***************************************************************************)
\* committee c: three validators, the third with twice the power (quorum 3 of 4)
Committee(c) ==
  [validators |-> << <<10 * c + 1, 1>>, <<10 * c + 2, 1>>, <<10 * c + 3, 2>> >>]
EpochStateOf(c) == [epoch |-> c, verifier |-> Committee(c)]

Sign(pk, li) == [signer |-> pk, msg |-> LedgerInfoHash(li)]

\* An epoch-change entry of epoch s: signed by committee s (by validators 1
\* and 3, a quorum, or by validators 1 and 2, less than a quorum), declaring
\* committee n as the next one (0: none declared).
EntryLedgerInfo(s, n) ==
  [epoch |-> s, version |-> 100 * s, transaction_accumulator_hash |-> Atom(s),
   next_epoch_state |-> IF n = 0 THEN None ELSE Some(EpochStateOf(n)),
   block_id |-> Atom(50 + s)]
Entry(s, quorum, n) ==
  LET li == EntryLedgerInfo(s, n)
  IN [ledger_info |-> li,
      signatures |-> IF quorum THEN <<Sign(10 * s + 1, li), Sign(10 * s + 3, li)>>
                     ELSE <<Sign(10 * s + 1, li), Sign(10 * s + 2, li)>>]

\* every quorum-signed entry, and one entry signed by less than a quorum per committee
EntryParams ==
  {<<s, TRUE, n>> : s \in Committees, n \in {0} \cup Committees}
    \cup {<<s, FALSE, (s % Cardinality(Committees)) + 1>> : s \in Committees}
ProofParams == UNION {[1..n -> EntryParams] : n \in 0..MaxProofLen}
ProofOf(pp) == [i \in 1..Len(pp) |-> Entry(pp[i][1], pp[i][2], pp[i][3])]

EpochStateTS(es) == [kind |-> "EpochState", epoch_state |-> es]
WaypointTS == [kind |-> "EpochWaypoint", waypoint |-> Atom(99)]

\* trusted state bytes: t in Committees: EpochState(t); 0: a waypoint; -1: garbage
TrustedStateBytes(t) ==
  IF t = -1 THEN Garbage
  ELSE IF t = 0 THEN to_bytes("TrustedState", WaypointTS)
  ELSE to_bytes("TrustedState", EpochStateTS(EpochStateOf(t)))

EpochChangeAssets(t, proofGarbage, pp) ==
  [trusted_state |-> TrustedStateBytes(t),
   epoch_change_proof |-> IF proofGarbage THEN Garbage
                          ELSE to_bytes("EpochChangeProof", ProofOf(pp))]

(***************************************************************************)
(* Inclusion inputs: a valid world, with one thing tampered.               *)
(*   v: the committee; k: the key; nsib: the sparse proof's length;        *)
(*   idx: the transaction's index; cp: the transaction carries a state     *)
(*   checkpoint; allSign: all three validators signed (else validators 1   *)
(*   and 3, exactly a quorum).                                             *)
(* The tamper "tx_and_sig" changes two things, the transaction and the     *)
(* signatures.                                                             *)
(***************************************************************************)
Worlds ==
  [v : {1, 2}, k : {1, 2}, nsib : {1, 2}, idx : {0, 1, 2}, cp : BOOLEAN,
   allSign : BOOLEAN]

TamperTransaction == {"tx_garbage", "tx_other", "tx_checkpoint"}
TamperIndex == {"index", "index_high"}
TamperSignatures == {"sig_below", "sig_wrong_msg", "sig_unknown", "sig_dup"}
TamperSparseProof ==
  {"sparse_garbage", "sparse_sibling", "sparse_extra", "sparse_leaf",
   "sparse_leaf_none", "sparse_empty"}
TamperKey == {"key"}
TamperValue == {"value"}
TamperOther ==
  {"committee_garbage", "committee_other", "li_garbage", "li_block",
   "txproof_garbage", "txproof_sibling", "tx_and_sig"}
Tampers ==
  {"none"} \cup TamperTransaction \cup TamperIndex \cup TamperSignatures
    \cup TamperSparseProof \cup TamperKey \cup TamperValue \cup TamperOther

WorldKey(w) == Atom(w.k)
WorldValue == Atom(40)
WorldSparseProof(w) ==
  [leaf |-> Some([key |-> WorldKey(w), value_hash |-> WorldValue]),
   siblings |-> SubSeq(<<Atom(21), Atom(22)>>, 1, w.nsib)]
\* the root of the state tree the sparse proof was taken from
WorldStateRoot(w) ==
  SparseFold(SparseLeafHash(WorldKey(w), WorldValue), WorldKey(w),
             WorldSparseProof(w).siblings, w.nsib)
WorldTransaction(w) ==
  [id |-> 1, state_checkpoint |-> IF w.cp THEN Some(WorldStateRoot(w)) ELSE None]
WorldTransactionProof == [siblings |-> <<Atom(31), Atom(32)>>]
WorldLedgerInfo(w) ==
  [epoch |-> w.v, version |-> 7,
   transaction_accumulator_hash |->
     AccumulatorFold(TransactionInfoHash(WorldTransaction(w)), w.idx,
                     WorldTransactionProof.siblings),
   next_epoch_state |-> None, block_id |-> Atom(60 + w.v)]
WorldSignatures(w, li) ==
  IF w.allSign
    THEN <<Sign(10 * w.v + 1, li), Sign(10 * w.v + 2, li), Sign(10 * w.v + 3, li)>>
    ELSE <<Sign(10 * w.v + 1, li), Sign(10 * w.v + 3, li)>>

InclusionAssets(w, t) ==
  LET sp == WorldSparseProof(w)
      tx == WorldTransaction(w)
      li == WorldLedgerInfo(w)
      sigs == WorldSignatures(w, li)
  IN [sparse_merkle_proof |->
        CASE t = "sparse_garbage" -> Garbage
          [] t = "sparse_sibling" ->
               to_bytes("SparseMerkleProof", [sp EXCEPT !.siblings[1] = Atom(29)])
          [] t = "sparse_extra" ->
               to_bytes("SparseMerkleProof",
                        [sp EXCEPT !.siblings = Append(sp.siblings, Atom(28))])
          [] t = "sparse_leaf" ->
               to_bytes("SparseMerkleProof",
                        [sp EXCEPT !.leaf = Some([key |-> WorldKey(w),
                                                  value_hash |-> Atom(41)])])
          [] t = "sparse_leaf_none" ->
               to_bytes("SparseMerkleProof", [sp EXCEPT !.leaf = None])
          [] t = "sparse_empty" ->
               to_bytes("SparseMerkleProof", [sp EXCEPT !.siblings = <<>>])
          [] OTHER -> to_bytes("SparseMerkleProof", sp),
      leaf_key |-> IF t = "key" THEN Atom(3 - w.k) ELSE WorldKey(w),
      leaf_hash |-> IF t = "value" THEN Atom(41) ELSE WorldValue,
      transaction |->
        CASE t = "tx_garbage" -> Garbage
          [] t \in {"tx_other", "tx_and_sig"} ->
               to_bytes("TransactionInfo", [tx EXCEPT !.id = 2])
          [] t = "tx_checkpoint" ->
               to_bytes("TransactionInfo", [tx EXCEPT !.state_checkpoint = Some(Atom(42))])
          [] OTHER -> to_bytes("TransactionInfo", tx),
      transaction_index |->
        CASE t = "index" -> (w.idx + 1) % 4
          [] t = "index_high" -> w.idx + 4
          [] OTHER -> w.idx,
      transaction_proof |->
        CASE t = "txproof_garbage" -> Garbage
          [] t = "txproof_sibling" ->
               to_bytes("TransactionAccumulatorProof",
                        [siblings |-> <<Atom(39), Atom(32)>>])
          [] OTHER -> to_bytes("TransactionAccumulatorProof", WorldTransactionProof),
      latest_li |->
        CASE t = "li_garbage" -> Garbage
          [] t = "li_block" ->
               to_bytes("LedgerInfoWithSignatures",
                        [ledger_info |-> [li EXCEPT !.block_id = Atom(69)],
                         signatures |-> sigs])
          [] t \in {"sig_below", "tx_and_sig"} ->
               to_bytes("LedgerInfoWithSignatures",
                        [ledger_info |-> li,
                         signatures |-> <<Sign(10 * w.v + 1, li), Sign(10 * w.v + 2, li)>>])
          [] t = "sig_wrong_msg" ->
               to_bytes("LedgerInfoWithSignatures",
                        [ledger_info |-> li,
                         signatures |-> WorldSignatures(w, [li EXCEPT !.version = 8])])
          [] t = "sig_unknown" ->
               to_bytes("LedgerInfoWithSignatures",
                        [ledger_info |-> li,
                         signatures |-> [sigs EXCEPT ![1] = Sign(99, li)]])
          [] t = "sig_dup" ->
               to_bytes("LedgerInfoWithSignatures",
                        [ledger_info |-> li, signatures |-> Append(sigs, sigs[1])])
          [] OTHER ->
               to_bytes("LedgerInfoWithSignatures",
                        [ledger_info |-> li, signatures |-> sigs]),
      validator_verifier |->
        CASE t = "committee_garbage" -> Garbage
          [] t = "committee_other" -> to_bytes("ValidatorVerifier", Committee(3))
          [] OTHER -> to_bytes("ValidatorVerifier", Committee(w.v))]

VARIABLES
  prog,       \* the guest being run: "none", "epoch_change", "inclusion"
  pc,         \* the guest's position; "done" and "aborted" end a run
  stdin,      \* the items the host wrote
  readLog,    \* the guest's reads so far: kind, variable, and the field read
  mem,        \* the guest's local variables
  committed,  \* the public values committed so far
  err,        \* the panic message of an aborted run
  cause,      \* the error the panic message reports (the Err of an expect)
  assets,     \* the host's assets of this run
  scenario,   \* how the assets were chosen
  chained,    \* this run's trusted state is the one the previous run ratcheted to
  lastNew     \* the second value the previous run committed (when chained)

vars == <<prog, pc, stdin, readLog, mem, committed, err, cause, assets, scenario,
          chained, lastNew>>

EmptyMem == [x \in {} |-> 0]
Set(m, var, value) == (var :> value) @@ m

Init ==
  /\ prog = "none" /\ pc = "idle"
  /\ stdin = <<>> /\ readLog = <<>> /\ mem = EmptyMem
  /\ committed = <<>> /\ err = "" /\ cause = ""
  /\ assets = <<>> /\ scenario = <<>>
  /\ chained = FALSE /\ lastNew = <<>>

Begin(program, stdin_, assets_, scenario_) ==
  /\ prog' = program /\ pc' = "read"
  /\ stdin' = stdin_ /\ readLog' = <<>> /\ mem' = EmptyMem
  /\ committed' = <<>> /\ err' = "" /\ cause' = ""
  /\ assets' = assets_ /\ scenario' = scenario_

\* the host starts an epoch-change run on any trusted state and proof bytes,
\* through any of the three writers of stdin
HostEpochChange ==
  /\ pc = "idle"
  /\ \E mode_ \in Modes, t \in Committees \cup {0, -1}, g \in BOOLEAN, pp \in ProofParams :
       /\ g => pp = <<>>
       \* ProvingAssets::new: an EpochState and a proof from the wrapper
       /\ mode_ # "generate_stdin" => t \in Committees /\ ~g
       /\ LET a == EpochChangeAssets(t, g, pp)
          IN Begin("epoch_change", EpochChangeStdin(mode_, a), a,
                   [ts |-> t, proofGarbage |-> g, proof |-> pp])
  /\ chained' = FALSE /\ lastNew' = <<>>

\* the next proof of a chain: its trusted state is the EpochState the previous
\* successful run ratcheted to, and its proof, if it has an entry, starts at
\* that epoch
HostChainEpochChange ==
  /\ pc = "done" /\ prog = "epoch_change" /\ Len(committed) = 2
  /\ \E pp \in ProofParams :
       LET mode_ == "generate_stdin"
           es == mem.trusted_state_change.new_state
           a == [trusted_state |-> to_bytes("TrustedState", EpochStateTS(es)),
                 epoch_change_proof |-> to_bytes("EpochChangeProof", ProofOf(pp))]
       IN /\ pp # <<>> => pp[1][1] = es.epoch
          /\ Begin("epoch_change", EpochChangeStdin(mode_, a), a,
                   [ts |-> es.epoch, proofGarbage |-> FALSE, proof |-> pp])
  /\ chained' = TRUE /\ lastNew' = committed[2]

(***************************************************************************)
(* Guest steps                                                             *)
(***************************************************************************)
\* expect() on an Err, or panic!()
Abort(message, cause_) ==
  /\ pc' = "aborted" /\ err' = message /\ cause' = cause_
  /\ UNCHANGED <<prog, stdin, readLog, mem, committed, assets, scenario,
                 chained, lastNew>>

Goto(label, mem_) ==
  /\ pc' = label /\ mem' = mem_
  /\ UNCHANGED <<prog, stdin, readLog, committed, err, cause, assets, scenario,
                 chained, lastNew>>

\* sp1_zkvm::io::commit
Commit(label, value) ==
  /\ pc' = label /\ committed' = Append(committed, value)
  /\ UNCHANGED <<prog, stdin, readLog, mem, err, cause, assets, scenario,
                 chained, lastNew>>

\* sp1_zkvm::io::read_vec / read: the next item of the stream, of the kind asked for
ReadNext(reads, next) ==
  LET i == Len(readLog) + 1
      r == reads[i]
  IN IF i > Len(stdin) THEN Abort("read: input stream exhausted", "DeserializationError")
     ELSE IF stdin[i].kind # r.kind THEN Abort("read: could not deserialize input", "DeserializationError")
     ELSE /\ mem' = Set(mem, r.var, stdin[i].data[1])
          /\ readLog' = Append(readLog, [kind |-> r.kind, var |-> r.var,
                                         field |-> stdin[i].field])
          /\ pc' = IF i = Len(reads) THEN next ELSE "read"
          /\ UNCHANGED <<prog, stdin, committed, err, cause, assets, scenario,
                         chained, lastNew>>

(***************************************************************************)
(* programs/epoch-change/src/main.rs                                       *)
(***************************************************************************)
\* lines 9-10
EC_Read == prog = "epoch_change" /\ pc = "read" /\ ReadNext(epoch_change_reads, "ec11")

\* lines 11-12
EC_TrustedStateFromBytes ==
  /\ prog = "epoch_change" /\ pc = "ec11"
  /\ LET r == from_bytes("TrustedState", mem.trusted_state_bytes)
     IN IF ~r.ok THEN Abort("TrustedState::from_bytes: could not create trusted state", r.err)
        ELSE Goto("ec13", Set(mem, "trusted_state", r.val[1]))

\* lines 13-14 (the proof shadows the bytes read at line 10)
EC_ProofFromBytes ==
  /\ prog = "epoch_change" /\ pc = "ec13"
  /\ LET r == from_bytes("EpochChangeProof", mem.epoch_change_proof)
     IN IF ~r.ok
          THEN Abort("EpochChangeProof::from_bytes: could not create epoch change proof", r.err)
        ELSE Goto("ec15", Set(mem, "epoch_change_proof", r.val[1]))

\* (mutant) a failed ratchet ends the program without a panic
EC_Ratchet_SilentReturn ==
  /\ prog = "epoch_change" /\ pc = "ec15"
  /\ \E waypointAccepts \in BOOLEAN :
       /\ mem.trusted_state.kind = "EpochState" => waypointAccepts = FALSE
       /\ LET r == verify_and_ratchet_inner(mem.trusted_state, mem.epoch_change_proof,
                                            waypointAccepts)
          IN IF ~r.ok THEN Goto("done", mem)
             ELSE Goto("ec18", Set(mem, "trusted_state_change", r.val[1]))

\* (mutant) every entry of the proof is ratcheted on its own from the trusted
\* state the program was given, and the last entry's change is kept
EC_Ratchet_EachFromInitial ==
  /\ prog = "epoch_change" /\ pc = "ec15"
  /\ \E waypointAccepts \in BOOLEAN :
       /\ mem.trusted_state.kind = "EpochState" => waypointAccepts = FALSE
       /\ LET P == mem.epoch_change_proof
              rs == [i \in 1..Len(P) |->
                       verify_and_ratchet_inner(mem.trusted_state, <<P[i]>>, waypointAccepts)]
              bad == {i \in 1..Len(P) : ~rs[i].ok}
              first == CHOOSE i \in bad : \A j \in bad : i <= j
          IN IF Len(P) = 0
               THEN Abort("TrustedState::verify_and_ratchet_inner: could not ratchet",
                          "MissingNextEpochState")
             ELSE IF bad # {}
               THEN Abort("TrustedState::verify_and_ratchet_inner: could not ratchet",
                          rs[first].err)
             ELSE Goto("ec18", Set(mem, "trusted_state_change", rs[Len(P)].val[1]))

\* lines 15-17
EC_Ratchet ==
  /\ prog = "epoch_change" /\ pc = "ec15"
  /\ \E waypointAccepts \in BOOLEAN :
       /\ mem.trusted_state.kind = "EpochState" => waypointAccepts = FALSE
       /\ LET r == verify_and_ratchet_inner(mem.trusted_state, mem.epoch_change_proof,
                                            waypointAccepts)
          IN IF ~r.ok THEN Abort("TrustedState::verify_and_ratchet_inner: could not ratchet", r.err)
             ELSE Goto("ec18", Set(mem, "trusted_state_change", r.val[1]))

\* (mutant) the new committee's hash is committed as soon as it is computed,
\* before the trusted state's variant is matched
EC_NewHash_CommitsEarly ==
  /\ prog = "epoch_change" /\ pc = "ec18"
  /\ LET n == mem.trusted_state_change.latest_epoch_change_li.ledger_info.next_epoch_state
     IN /\ pc' = "ec30"
        /\ mem' = Set(mem, "validator_verifier_hash", ValidatorVerifierHash(n[1].verifier))
        /\ committed' = Append(committed, ValidatorVerifierHash(n[1].verifier))
        /\ UNCHANGED <<prog, stdin, readLog, err, cause, assets, scenario, chained, lastNew>>

\* (mutant) the hash of the committee declared by the first entry of the proof
EC_NewHash_FirstEntry ==
  /\ prog = "epoch_change" /\ pc = "ec18"
  /\ LET n == mem.epoch_change_proof[1].ledger_info.next_epoch_state
     IN Goto("ec30", Set(mem, "validator_verifier_hash",
                         ValidatorVerifierHash(n[1].verifier)))

\* lines 18-29
EC_NewHash ==
  /\ prog = "epoch_change" /\ pc = "ec18"
  /\ LET c == mem.trusted_state_change
     IN IF c.kind # "Epoch" THEN Abort("Expected epoch change", "panic")
        ELSE LET n == c.latest_epoch_change_li.ledger_info.next_epoch_state
             IN IF n = None THEN Abort("Expected epoch state", "panic")
                ELSE Goto("ec30", Set(mem, "validator_verifier_hash",
                                      ValidatorVerifierHash(n[1].verifier)))

\* (mutant) no match on the variant: any trusted state is taken to hold the
\* committee the proof started from
EC_PrevHash_NoVariantCheck ==
  /\ prog = "epoch_change" /\ pc = "ec30"
  /\ Goto("ec36", Set(mem, "prev_epoch_validator_verifier_hash",
                      IF mem.trusted_state.kind = "EpochState"
                        THEN ValidatorVerifierHash(mem.trusted_state.epoch_state.verifier)
                        ELSE mem.trusted_state.waypoint))

\* (mutant) the hash of the epoch state instead of the hash of its verifier
EC_PrevHash_EpochStateHash ==
  /\ prog = "epoch_change" /\ pc = "ec30"
  /\ IF mem.trusted_state.kind # "EpochState"
       THEN Abort("Expected epoch change for current trusted state", "panic")
     ELSE Goto("ec36", Set(mem, "prev_epoch_validator_verifier_hash",
                           EpochStateHash(mem.trusted_state.epoch_state)))

\* lines 30-33
EC_PrevHash ==
  /\ prog = "epoch_change" /\ pc = "ec30"
  /\ IF mem.trusted_state.kind # "EpochState"
       THEN Abort("Expected epoch change for current trusted state", "panic")
     ELSE Goto("ec36", Set(mem, "prev_epoch_validator_verifier_hash",
                           ValidatorVerifierHash(mem.trusted_state.epoch_state.verifier)))

\* (mutant) the new committee's hash committed first
EC_CommitPrev_NewFirst ==
  /\ prog = "epoch_change" /\ pc = "ec36"
  /\ Commit("ec37", mem.validator_verifier_hash)

\* line 36
EC_CommitPrev ==
  /\ prog = "epoch_change" /\ pc = "ec36"
  /\ Commit("ec37", mem.prev_epoch_validator_verifier_hash)

\* line 37
EC_CommitNew ==
  /\ prog = "epoch_change" /\ pc = "ec37"
  /\ Commit("done", mem.validator_verifier_hash)

\* the host starts an inclusion run, through any of the three writers of stdin
HostInclusion ==
  /\ pc = "idle"
  /\ \E mode_ \in Modes, w \in Worlds, t \in Tampers :
       \* ProvingAssets::from_nbr_leaves: the wrapper's own proof, with a checkpoint
       /\ mode_ # "generate_stdin" => t = "none" /\ w.cp
       /\ LET a == InclusionAssets(w, t)
          IN Begin("inclusion", InclusionStdin(mode_, a), a, [world |-> w, tamper |-> t])
  /\ chained' = FALSE /\ lastNew' = <<>>

(***************************************************************************)
(* programs/inclusion/src/main.rs                                          *)
(***************************************************************************)
\* lines 13-22
IN_Read == prog = "inclusion" /\ pc = "read" /\ ReadNext(inclusion_reads, "in24")

\* lines 24-25
IN_ValidatorVerifierFromBytes ==
  /\ prog = "inclusion" /\ pc = "in24"
  /\ LET r == from_bytes("ValidatorVerifier", mem.verified_validator_verifier)
     IN IF ~r.ok
          THEN Abort("validator_verifier: could not create ValidatorVerifier from bytes", r.err)
        ELSE Goto("in28", Set(mem, "validator_verifier", r.val[1]))

\* lines 28-30
IN_TransactionFromBytes ==
  /\ prog = "inclusion" /\ pc = "in28"
  /\ LET r == from_bytes("TransactionInfo", mem.transaction_bytes)
     IN IF ~r.ok THEN Abort("from_bytes: could not deserialize TransactionInfo", r.err)
        ELSE Goto("in31", Set(Set(mem, "transaction", r.val[1]),
                              "transaction_hash", TransactionInfoHash(r.val[1])))

\* lines 31-32 (the proof shadows the bytes read at line 19)
IN_TransactionProofFromBytes ==
  /\ prog = "inclusion" /\ pc = "in31"
  /\ LET r == from_bytes("TransactionAccumulatorProof", mem.transaction_proof)
     IN IF ~r.ok
          THEN Abort("from_bytes: could not deserialize TransactionAccumulatorProof", r.err)
        ELSE Goto("in33", Set(mem, "transaction_proof", r.val[1]))

\* lines 33-35
IN_LedgerInfoFromBytes ==
  /\ prog = "inclusion" /\ pc = "in33"
  /\ LET r == from_bytes("LedgerInfoWithSignatures", mem.ledger_info_bytes)
     IN IF ~r.ok THEN Abort("from_bytes: could not deserialize LedgerInfo", r.err)
        ELSE Goto("in37",
                  Set(Set(mem, "latest_li", r.val[1]), "expected_root_hash",
                      r.val[1].ledger_info.transaction_accumulator_hash))

\* (mutant) the ledger header's signatures are verified before the transaction
\* proof
IN_VerifyTransactionProof_SignaturesFirst ==
  /\ prog = "inclusion" /\ pc = "in37"
  /\ LET s == verify_signatures(mem.latest_li, mem.validator_verifier)
         r == TransactionAccumulatorProofVerify(mem.transaction_proof,
                mem.expected_root_hash, mem.transaction_hash, mem.transaction_index)
     IN IF ~s.ok THEN Abort("verify_signatures: could not verify signatures", s.err)
        ELSE IF ~r.ok THEN Abort("verify: could not verify proof", r.err)
        ELSE Goto("in40", mem)

\* lines 37-39
IN_VerifyTransactionProof ==
  /\ prog = "inclusion" /\ pc = "in37"
  /\ LET r == TransactionAccumulatorProofVerify(mem.transaction_proof,
                mem.expected_root_hash, mem.transaction_hash, mem.transaction_index)
     IN IF ~r.ok THEN Abort("verify: could not verify proof", r.err)
        ELSE Goto("in40", mem)

\* lines 40-42
IN_VerifySignatures ==
  /\ prog = "inclusion" /\ pc = "in40"
  /\ LET r == verify_signatures(mem.latest_li, mem.validator_verifier)
     IN IF ~r.ok THEN Abort("verify_signatures: could not verify signatures", r.err)
        ELSE Goto("in43", mem)

\* lines 43-44
IN_SparseProofFromBytes ==
  /\ prog = "inclusion" /\ pc = "in43"
  /\ LET r == from_bytes("SparseMerkleProof", mem.sparse_merkle_proof_bytes)
     IN IF ~r.ok THEN Abort("from_bytes: could not deserialize SparseMerkleProof", r.err)
        ELSE Goto("in45", Set(mem, "sparse_merkle_proof", r.val[1]))

\* lines 45-47
IN_StateCheckpoint ==
  /\ prog = "inclusion" /\ pc = "in45"
  /\ LET c == mem.transaction.state_checkpoint
     IN IF c = None THEN Abort("state_checkpoint: could not get state checkpoint", "StateCheckpointMissing")
        ELSE Goto("in48", Set(mem, "sparse_expected_root_hash", c[1]))

\* lines 48-55; HashValue::from_slice of a 32-byte array cannot fail
IN_VerifyByHash ==
  /\ prog = "inclusion" /\ pc = "in48"
  /\ LET r == verify_by_hash(mem.sparse_merkle_proof, mem.sparse_expected_root_hash,
                             mem.key, mem.leaf_value_hash)
     IN IF ~r.ok THEN Abort("verify_by_hash: could not verify proof", r.err)
        ELSE Goto("in57", Set(mem, "reconstructed_root_hash", r.val[1]))

\* line 57
IN_CommitCommitteeHash ==
  /\ prog = "inclusion" /\ pc = "in57"
  /\ Commit("in60", ValidatorVerifierHash(mem.validator_verifier))

\* line 60
IN_CommitStateRoot ==
  /\ prog = "inclusion" /\ pc = "in60"
  /\ Commit("in63", mem.reconstructed_root_hash)

\* lines 63-64
IN_CommitBlockId ==
  /\ prog = "inclusion" /\ pc = "in63"
  /\ Commit("in67", mem.latest_li.ledger_info.block_id)

\* (mutant) the value hash committed in the key's place
IN_CommitKey_ValueHash ==
  /\ prog = "inclusion" /\ pc = "in67"
  /\ Commit("in70", mem.leaf_value_hash)

\* line 67
IN_CommitKey ==
  /\ prog = "inclusion" /\ pc = "in67"
  /\ Commit("in70", mem.key)

\* line 70
IN_CommitLeafValueHash ==
  /\ prog = "inclusion" /\ pc = "in70"
  /\ Commit("done", mem.leaf_value_hash)

(***************************************************************************)
(* script/src/bin/inclusion.rs main, lines 171-219: after a proof was      *)
(* generated the host reads the five public values back and asserts each   *)
(* against its own reference value.                                        *)
(***************************************************************************)
HostPanic(message) ==
  /\ pc' = "host_panicked" /\ err' = message /\ cause' = "assertion"
  /\ UNCHANGED <<prog, stdin, readLog, mem, committed, assets, scenario,
                 chained, lastNew>>

HostVerifyInclusion ==
  /\ prog = "inclusion" /\ pc = "done"
  /\ LET vv == from_bytes("ValidatorVerifier", assets.validator_verifier).val[1]
         tx == from_bytes("TransactionInfo", assets.transaction).val[1]
         li == from_bytes("LedgerInfoWithSignatures", assets.latest_li).val[1]
     IN IF committed[1] # ValidatorVerifierHash(vv)
          THEN HostPanic("assertion failed: validator verifier hash")
        ELSE IF committed[2] # tx.state_checkpoint[1]
          THEN HostPanic("Merkle root hash mismatch")
        ELSE IF committed[3] # li.ledger_info.block_id
          THEN HostPanic("Block hash mismatch")
        ELSE IF committed[4] # assets.leaf_key
          THEN HostPanic("Merkle tree key mismatch")
        ELSE IF committed[5] # assets.leaf_hash
          THEN HostPanic("Merkle tree value mismatch")
        ELSE /\ pc' = "host_verified"
             /\ UNCHANGED <<prog, stdin, readLog, mem, committed, err, cause, assets,
                            scenario, chained, lastNew>>

Next ==
  \/ HostEpochChange
  \/ HostChainEpochChange
  \/ HostInclusion
  \/ HostVerifyInclusion
  \/ IN_Read
  \/ IN_ValidatorVerifierFromBytes
  \/ IN_TransactionFromBytes
  \/ IN_TransactionProofFromBytes
  \/ IN_LedgerInfoFromBytes
  \/ IN_VerifyTransactionProof
  \/ IN_VerifySignatures
  \/ IN_SparseProofFromBytes
  \/ IN_StateCheckpoint
  \/ IN_VerifyByHash
  \/ IN_CommitCommitteeHash
  \/ IN_CommitStateRoot
  \/ IN_CommitBlockId
  \/ IN_CommitKey
  \/ IN_CommitLeafValueHash
  \/ EC_Read
  \/ EC_TrustedStateFromBytes
  \/ EC_ProofFromBytes
  \/ EC_Ratchet
  \/ EC_NewHash
  \/ EC_PrevHash
  \/ EC_CommitPrev
  \/ EC_CommitNew

Spec == Init /\ [][Next]_vars

(***************************************************************************)
(* Properties                                                              *)
(***************************************************************************)
GuestSucceeded(program) ==
  prog = program /\ pc \in {"done", "host_verified", "host_panicked"}

\* what the inclusion run was given, decoded from the host's assets
GivenCommittee == assets.validator_verifier.val[1]

GivenLedger == assets.latest_li.val[1]

GivenTransaction == assets.transaction.val[1]

GivenSparseProof == assets.sparse_merkle_proof.val[1]

InclusionExpectedOutput ==
  << ValidatorVerifierHash(GivenCommittee),
     verify_by_hash(GivenSparseProof, GivenTransaction.state_checkpoint[1],
                    assets.leaf_key, assets.leaf_hash).val[1],
     GivenLedger.ledger_info.block_id,
     assets.leaf_key,
     assets.leaf_hash >>

\* C1: a successful inclusion run has committed exactly hash(V), the root
\* returned by verify_by_hash, block_id(L), K and H, in this order, K and H
\* being the host's key and value hash; while it commits, what is committed
\* is a prefix of these five.
C1_InclusionOutput ==
  /\ (prog = "inclusion" /\ committed # <<>>) =>
       committed = SubSeq(InclusionExpectedOutput, 1, Len(committed))
  /\ GuestSucceeded("inclusion") => Len(committed) = 5

C1_Witness ==
  /\ prog = "inclusion" /\ pc = "done"
  /\ committed = InclusionExpectedOutput
  /\ assets.leaf_key # assets.leaf_hash

EpochChangeExpectedOutput ==
  << ValidatorVerifierHash(assets.trusted_state.val[1].epoch_state.verifier),
     ValidatorVerifierHash(
       mem.trusted_state_change.latest_epoch_change_li
          .ledger_info.next_epoch_state[1].verifier) >>

\* C2: a successful epoch-change run has committed exactly two values: first
\* the hash of the committee of the input EpochState, then the hash of the
\* next-epoch committee declared by the latest epoch-change ledger info of the
\* ratchet result.
C2_EpochChangeOutput ==
  /\ (prog = "epoch_change" /\ committed # <<>>) =>
       committed = SubSeq(EpochChangeExpectedOutput, 1, Len(committed))
  /\ GuestSucceeded("epoch_change") => Len(committed) = 2

C2_Witness ==
  /\ prog = "epoch_change" /\ pc = "done"
  /\ committed = EpochChangeExpectedOutput
  /\ committed[1] # committed[2]

\* the number of public values of the entrypoint
OutputLength == IF prog = "inclusion" THEN 5 ELSE 2

\* C3: an aborted run of either entrypoint has committed nothing, a run that
\* has committed a value is at a commit or has finished, and a finished run
\* has committed all of its values.
C3_NoPartialCommitment ==
  /\ pc = "aborted" => committed = <<>> /\ err # ""
  /\ committed # <<>> =>
       pc \in {"ec37", "in60", "in63", "in67", "in70",
               "done", "host_verified", "host_panicked"}
  /\ pc \in {"done", "host_verified", "host_panicked"} =>
       Len(committed) = OutputLength

C3_Witness ==
  /\ prog = "inclusion" /\ pc = "aborted" /\ committed = <<>>
  /\ err = "verify_by_hash: could not verify proof"

\* the run's input is EpochState(C0) and a proof C0 -> C1 -> ... -> Cn: entry i
\* is signed by a quorum of C(i-1) and declares Ci
ValidChain ==
  /\ prog = "epoch_change"
  /\ scenario.ts \in Committees /\ ~scenario.proofGarbage
  /\ Len(scenario.proof) >= 1
  /\ \A i \in 1..Len(scenario.proof) :
       /\ scenario.proof[i][1] = (IF i = 1 THEN scenario.ts ELSE scenario.proof[i - 1][3])
       /\ scenario.proof[i][2]
       /\ scenario.proof[i][3] # 0

ChainLast == scenario.proof[Len(scenario.proof)][3]

CommitteeHash(c) == ValidatorVerifierHash(Committee(c))

\* C4: a run on EpochState(C0) and a valid proof C0 -> ... -> Cn never aborts
\* and ends with (hash(C0), hash(Cn)) committed; the hash of an intermediate
\* committee, different from C0 and Cn, is never among the committed values.
C4_RatchetCommitsEnds ==
  ValidChain =>
    /\ pc # "aborted"
    /\ pc = "done" => committed = <<CommitteeHash(scenario.ts), CommitteeHash(ChainLast)>>
    /\ \A i \in 1..(Len(scenario.proof) - 1), j \in 1..Len(committed) :
         scenario.proof[i][3] \notin {scenario.ts, ChainLast} =>
           committed[j] # CommitteeHash(scenario.proof[i][3])

C4_Witness ==
  /\ ValidChain /\ pc = "done" /\ Len(scenario.proof) = 2
  /\ Cardinality({scenario.ts, scenario.proof[1][3], ChainLast}) = 3
  /\ committed = <<CommitteeHash(scenario.ts), CommitteeHash(ChainLast)>>

\* C5: the second value an inclusion run commits is the state-checkpoint hash
\* of the transaction it was given, so a sparse proof whose recomputed root is
\* another digest never leads to a commitment.
C5_RootIsStateCheckpoint ==
  (prog = "inclusion" /\ Len(committed) >= 2) =>
    committed[2] = GivenTransaction.state_checkpoint[1]

\* the input contract: kind of the item, asset written, variable read into
InputContract ==
  IF prog = "inclusion"
    THEN << <<"vec", "sparse_merkle_proof", "sparse_merkle_proof_bytes">>,
            <<"val", "leaf_key", "key">>,
            <<"val", "leaf_hash", "leaf_value_hash">>,
            <<"vec", "transaction", "transaction_bytes">>,
            <<"val", "transaction_index", "transaction_index">>,
            <<"vec", "transaction_proof", "transaction_proof">>,
            <<"vec", "latest_li", "ledger_info_bytes">>,
            <<"vec", "validator_verifier", "verified_validator_verifier">> >>
    ELSE << <<"vec", "trusted_state", "trusted_state_bytes">>,
            <<"vec", "epoch_change_proof", "epoch_change_proof">> >>

\* C6: what the host writes is what the guest reads, item for item and in
\* kind, and it is the input contract of the entrypoint: read i takes item i
\* of stdin, of the kind read, written from the asset the variable stands for;
\* no read fails, and when the reads are over no item is left.
C6_StdinMatchesReads ==
  prog # "none" =>
    /\ Len(stdin) = Len(InputContract)
    /\ \A i \in 1..Len(stdin) :
         stdin[i].kind = InputContract[i][1] /\ stdin[i].field = InputContract[i][2]
    /\ Len(readLog) <= Len(stdin)
    /\ \A i \in 1..Len(readLog) :
         /\ readLog[i].kind = stdin[i].kind
         /\ readLog[i].field = stdin[i].field
         /\ readLog[i].var = InputContract[i][3]
    /\ pc # "read" => Len(readLog) = Len(stdin)

C6_Witness ==
  /\ prog = "inclusion" /\ pc = "in24" /\ Len(readLog) = 8
  /\ mem.transaction_index = assets.transaction_index
  /\ mem.key = assets.leaf_key

VariantError == "Expected epoch change for current trusted state"

\* C7: a run whose trusted state is not an EpochState never commits and never
\* succeeds; it aborts with a panic message, and when the ratchet itself
\* accepted the state the message is the one of the variant match, which no
\* other failure produces.
C7_WrongVariantRejected ==
  /\ (prog = "epoch_change" /\ scenario.ts = 0) =>
       /\ committed = <<>>
       /\ pc \in {"read", "ec11", "ec13", "ec15", "ec18", "ec30", "aborted"}
       /\ pc = "aborted" => err # ""
       /\ (pc = "aborted" /\ "trusted_state_change" \in DOMAIN mem) => err = VariantError
  /\ err = VariantError =>
       /\ prog = "epoch_change" /\ pc = "aborted" /\ committed = <<>>
       /\ mem.trusted_state.kind # "EpochState"

C7_Witness ==
  /\ prog = "epoch_change" /\ scenario.ts = 0 /\ pc = "aborted"
  /\ "trusted_state_change" \in DOMAIN mem
  /\ err = VariantError /\ committed = <<>>

\* the first entry signed by less than a quorum of the committee trusted at it
\* (0: none), the entries before it being a valid chain from the trusted state
FirstBelowQuorum ==
  LET P == scenario.proof
      Bad == {i \in 1..Len(P) :
                /\ ~P[i][2]
                /\ P[i][1] = (IF i = 1 THEN scenario.ts ELSE P[i - 1][3])
                /\ \A j \in 1..(i - 1) :
                     /\ P[j][2] /\ P[j][3] # 0
                     /\ P[j][1] = (IF j = 1 THEN scenario.ts ELSE P[j - 1][3])}
  IN IF Bad = {} THEN 0 ELSE CHOOSE i \in Bad : TRUE

RatchetError == "TrustedState::verify_and_ratchet_inner: could not ratchet"

\* C8: from an EpochState, a proof with no entry fails with
\* MissingNextEpochState and a proof with an entry signed by less than a quorum
\* of the committee trusted at that entry fails with InvalidQuorum; in both
\* cases the run aborts at the ratchet and commits nothing.
C8_RatchetFailures ==
  (prog = "epoch_change" /\ scenario.ts \in Committees /\ ~scenario.proofGarbage
     /\ (Len(scenario.proof) = 0 \/ FirstBelowQuorum # 0)) =>
    /\ committed = <<>>
    /\ pc \in {"read", "ec11", "ec13", "ec15", "aborted"}
    /\ pc = "aborted" =>
         /\ err = RatchetError
         /\ cause = (IF Len(scenario.proof) = 0 THEN "MissingNextEpochState"
                     ELSE "InvalidQuorum")

C8_Witness ==
  /\ prog = "epoch_change" /\ scenario.ts \in Committees /\ ~scenario.proofGarbage
  /\ FirstBelowQuorum = 2
  /\ pc = "aborted" /\ err = RatchetError /\ cause = "InvalidQuorum"
  /\ committed = <<>>

\* C9: a run whose trusted state is the EpochState the previous successful run
\* ratcheted to commits, as its first value, the second value the previous run
\* committed.
C9_ProofsChain ==
  (prog = "epoch_change" /\ chained /\ committed # <<>>) => committed[1] = lastNew

C9_Witness ==
  /\ prog = "epoch_change" /\ chained /\ pc = "done"
  /\ committed[1] = lastNew /\ committed[2] # lastNew

ChecksSucceeded ==
  /\ TransactionAccumulatorProofVerify(assets.transaction_proof.val[1],
       GivenLedger.ledger_info.transaction_accumulator_hash,
       TransactionInfoHash(GivenTransaction), assets.transaction_index).ok
  /\ verify_signatures(GivenLedger, GivenCommittee).ok
  /\ GivenTransaction.state_checkpoint # None
  /\ verify_by_hash(GivenSparseProof, GivenTransaction.state_checkpoint[1],
                    assets.leaf_key, assets.leaf_hash).ok

TamperedAsClaimed ==
  TamperTransaction \cup TamperIndex \cup TamperSignatures \cup TamperSparseProof
    \cup TamperKey \cup TamperValue

\* C10: an inclusion run commits only if all four checks succeeded on its
\* input, and an otherwise valid input with its transaction bytes, its
\* transaction index, its ledger signatures, its sparse proof, its key or its
\* value hash tampered with commits nothing.
C10_CommitsOnlyVerified ==
  prog = "inclusion" =>
    /\ committed # <<>> => ChecksSucceeded
    /\ (scenario.world.cp /\ scenario.tamper \in TamperedAsClaimed) => committed = <<>>

\* the part of C10 that does not rest on the root comparison
C10_AllButSparseProof ==
  prog = "inclusion" =>
    /\ committed # <<>> => ChecksSucceeded
    /\ (scenario.world.cp /\ scenario.tamper \in TamperedAsClaimed
          /\ scenario.tamper \notin {"sparse_sibling", "sparse_extra"}) => committed = <<>>

\* the committee trusted when entry i of the proof is reached: the one the
\* program was given for the first entry, the one entry i-1 declared otherwise
TrustedAt(i) == IF i = 1 THEN scenario.ts ELSE scenario.proof[i - 1][3]

\* why entry i is refused by the committee trusted at it ("": it is accepted):
\* its signers are another committee's, or less than a quorum, or it declares
\* no next committee
EntryFailure(i) ==
  LET e == scenario.proof[i]
  IN IF e[1] # TrustedAt(i) THEN "UnknownSigner"
     ELSE IF ~e[2] THEN "InvalidQuorum"
     ELSE IF e[3] = 0 THEN "MissingNextEpochState"
     ELSE ""

\* the first entry that is refused (0: none)
FirstRefused ==
  LET Bad == {i \in 1..Len(scenario.proof) : EntryFailure(i) # ""}
  IN IF Bad = {} THEN 0 ELSE CHOOSE i \in Bad : \A j \in Bad : i <= j

RatchetRun ==
  /\ prog = "epoch_change" /\ scenario.ts \in Committees /\ ~scenario.proofGarbage
  /\ Len(scenario.proof) >= 1

\* a 2-entry proof whose second entry is signed by a quorum of the initial
\* committee A and not of B, the committee its first entry declares
SecondSignedByInitial ==
  /\ RatchetRun /\ Len(scenario.proof) = 2
  /\ scenario.proof[1] \in {<<scenario.ts, TRUE, n>> : n \in Committees \ {scenario.ts}}
  /\ scenario.proof[2][1] = scenario.ts /\ scenario.proof[2][2]

\* a 2-entry proof that is a valid chain once its two (different) entries are swapped
SwappedChain ==
  /\ RatchetRun /\ Len(scenario.proof) = 2
  /\ scenario.proof[1] # scenario.proof[2]
  /\ scenario.proof[2][1] = scenario.ts /\ scenario.proof[2][2]
  /\ scenario.proof[2][3] # 0
  /\ scenario.proof[1][1] = scenario.proof[2][3] /\ scenario.proof[1][2]
  /\ scenario.proof[1][3] # 0

\* C11: the ratchet takes the entries in their order and checks entry i against
\* the committee trusted after the entries before it: a run passes the ratchet
\* only if no entry is refused by the committee trusted at it, and then the new
\* state is the committee the last entry declares; otherwise it aborts at the
\* ratchet with the error of the first refused entry (MissingNextEpochState for
\* an accepted-signature entry that declares no committee) and commits nothing.
\* In particular a 2-entry proof whose second entry is signed by a quorum of
\* the initial committee and not of the declared one, or whose entries are
\* swapped, aborts and commits nothing.
C11_RatchetInOrder ==
  RatchetRun =>
    /\ "trusted_state_change" \in DOMAIN mem =>
         /\ FirstRefused = 0
         /\ mem.trusted_state_change.new_state = EpochStateOf(ChainLast)
         /\ mem.trusted_state_change.latest_epoch_change_li
              = mem.epoch_change_proof[Len(scenario.proof)]
    /\ FirstRefused # 0 =>
         /\ committed = <<>>
         /\ pc \in {"read", "ec11", "ec13", "ec15", "aborted"}
         /\ pc = "aborted" =>
              /\ err = RatchetError
              /\ cause = EntryFailure(FirstRefused)
    /\ FirstRefused = 0 => pc # "aborted"
    /\ (SecondSignedByInitial \/ SwappedChain) => FirstRefused # 0

C11_Witness ==
  /\ SecondSignedByInitial /\ scenario.proof[2][3] # 0
  /\ pc = "aborted" /\ err = RatchetError /\ cause = "UnknownSigner"
  /\ committed = <<>>

\* further cases of C11 that are reached: swapped entries, and an entry that
\* declares no next committee after a valid first entry
C11_SwappedReached ==
  /\ SwappedChain /\ pc = "aborted" /\ err = RatchetError /\ committed = <<>>

C11_MissingReached ==
  /\ RatchetRun /\ FirstRefused = 2 /\ scenario.proof[2][3] = 0
  /\ pc = "aborted" /\ cause = "MissingNextEpochState" /\ committed = <<>>

\* the steps of the inclusion entrypoint after its reads, in the order of the
\* claim: the position each starts at, the panic message of its failure, and
\* the local it binds when it succeeds ("": none)
StepLabel ==
  <<"in24", "in28", "in31", "in33", "in37", "in40", "in43", "in45", "in48">>
StepMessage ==
  <<"validator_verifier: could not create ValidatorVerifier from bytes",
    "from_bytes: could not deserialize TransactionInfo",
    "from_bytes: could not deserialize TransactionAccumulatorProof",
    "from_bytes: could not deserialize LedgerInfo",
    "verify: could not verify proof",
    "verify_signatures: could not verify signatures",
    "from_bytes: could not deserialize SparseMerkleProof",
    "state_checkpoint: could not get state checkpoint",
    "verify_by_hash: could not verify proof">>
StepBinds ==
  <<"validator_verifier", "transaction", "", "latest_li", "", "",
    "sparse_merkle_proof", "sparse_expected_root_hash", "reconstructed_root_hash">>

Decodes(field, T) == assets[field].type = T

\* the steps that fail on the run's input, each taken on its own (a check on
\* bytes that do not decode is the decoding's failure, not the check's)
FailingSteps ==
  LET vvOk == Decodes("validator_verifier", "ValidatorVerifier")
      txOk == Decodes("transaction", "TransactionInfo")
      tpOk == Decodes("transaction_proof", "TransactionAccumulatorProof")
      liOk == Decodes("latest_li", "LedgerInfoWithSignatures")
      spOk == Decodes("sparse_merkle_proof", "SparseMerkleProof")
  IN {k \in 1..9 :
        CASE k = 1 -> ~vvOk
          [] k = 2 -> ~txOk
          [] k = 3 -> ~tpOk
          [] k = 4 -> ~liOk
          [] k = 5 -> txOk /\ tpOk /\ liOk
                      /\ ~TransactionAccumulatorProofVerify(assets.transaction_proof.val[1],
                            GivenLedger.ledger_info.transaction_accumulator_hash,
                            TransactionInfoHash(GivenTransaction),
                            assets.transaction_index).ok
          [] k = 6 -> vvOk /\ liOk /\ ~verify_signatures(GivenLedger, GivenCommittee).ok
          [] k = 7 -> ~spOk
          [] k = 8 -> txOk /\ GivenTransaction.state_checkpoint = None
          [] OTHER -> txOk /\ spOk /\ GivenTransaction.state_checkpoint # None
                      /\ ~verify_by_hash(GivenSparseProof,
                                         GivenTransaction.state_checkpoint[1],
                                         assets.leaf_key, assets.leaf_hash).ok}

EarliestFailing ==
  IF FailingSteps = {} THEN 0
  ELSE CHOOSE k \in FailingSteps : \A j \in FailingSteps : k <= j

\* how many of the steps have run, read off the program's position: the steps
\* before the one it is at, or up to the one whose message it panicked with
StepsRun ==
  IF pc = "read" THEN 0
  ELSE IF \E k \in 1..9 : pc = StepLabel[k]
    THEN (CHOOSE k \in 1..9 : pc = StepLabel[k]) - 1
  ELSE IF pc = "aborted"
    THEN (IF \E k \in 1..9 : err = StepMessage[k]
            THEN CHOOSE k \in 1..9 : err = StepMessage[k] ELSE 0)
  ELSE 9

\* C12: in an inclusion run all eight items are read before the first step
\* (while reading, only the items read are bound and nothing else has run);
\* the steps run in the fixed order committee decoding, transaction proof,
\* signatures, state checkpoint, sparse proof; no step runs after a step that
\* fails on the input, so a run aborts exactly at the earliest failing step,
\* with that step's message, and a local is bound only if its step and all
\* steps before it succeed.
C12_FixedOrder ==
  prog = "inclusion" =>
    /\ pc # "read" => Len(readLog) = Len(inclusion_reads)
    /\ pc = "read" =>
         /\ DOMAIN mem = {inclusion_reads[i].var : i \in 1..Len(readLog)}
         /\ committed = <<>>
    /\ \A k \in FailingSteps : StepsRun <= k
    /\ pc = "aborted" => (EarliestFailing # 0 /\ err = StepMessage[EarliestFailing])
    /\ \A k \in 1..9 :
         (StepBinds[k] # "" /\ StepBinds[k] \in DOMAIN mem) =>
           /\ StepsRun >= k
           /\ \A j \in 1..k : j \notin FailingSteps
    /\ committed # <<>> => FailingSteps = {}

\* an input failing the transaction proof, the signatures and the state
\* checkpoint aborts at the transaction proof
C12_Witness ==
  /\ prog = "inclusion" /\ pc = "aborted"
  /\ {5, 6, 8} \subseteq FailingSteps
  /\ Len(readLog) = 8
  /\ err = "verify: could not verify proof" /\ committed = <<>>
  /\ "latest_li" \in DOMAIN mem /\ "sparse_merkle_proof" \notin DOMAIN mem

====
